---- MODULE Spec2Model ----
(***************************************************************************)
(* PySimpleMAC: the two MPI processes of exampleGUI.py.  Rank 1 runs the   *)
(* Tkinter control window (class App), whose callbacks isend tagged        *)
(* messages to rank 0; rank 0 owns the MAC solver and runs the polling     *)
(* loop "while on: ... while start: ..." that probes the tags, applies the *)
(* messages, steps the solver and redraws the plot.                        *)
(***************************************************************************)
EXTENDS Integers, Sequences, FiniteSets, TLC

(***************************************************************************)
(* Bounds of the model.                                                    *)
(***************************************************************************)
\* messages the control window sends in one behaviour
MaxMsgs == 4
\* solver steps taken since the last zero state, in Spec
MaxIter == 3
\* solver steps taken since the last zero state, in SpecCadence
MaxCadenceIter == 250
\* solver steps taken since the last zero state, in SpecFrames
MaxFrameIter == 100
\* slider positions above the lowest one that the operator uses
MaxSliderSteps == 1
\* frames written to disk in one behaviour
MaxSaves == 2

(***************************************************************************)
(* Program constants.                                                      *)
(***************************************************************************)
TagRe == 11
TagRun == 12
TagQuit == 13
TagReset == 14
TagField == 25
TagSave == 44
Tags == {TagRe, TagRun, TagQuit, TagReset, TagField, TagSave}

SliderFrom == 100
SliderTo == 10000
SliderResolution == 100
InitialRe == 100
VisInterval == 100

\* the positions of the Reynolds slider the operator moves it to
SliderValues ==
    {v \in SliderFrom..SliderTo :
        \E k \in 0..MaxSliderSteps : v = SliderFrom + k * SliderResolution}

Fields == {"u", "v", "p", "w"}

VARIABLES
    chan,       \* chan[tag]: the messages of that tag in flight, oldest first
    mainloop,   \* rank 1: the Tk event loop is running
    pc,         \* rank 0: the next statement of the compute loop
    on,         \* rank 0: while on
    start,      \* rank 0: while start
    plot,       \* rank 0: the field selected for the scheduled redraw
    i,          \* rank 0: the iteration counter
    r,          \* rank 0: the contour levels of the next contourf
    V,          \* rank 0: the field handed to the last contourf
    airRe,      \* air.re, the fluid object's attribute
    dimRe,      \* dim.re, the solver module's Reynolds number
    solver,     \* the persistent state of the solver module
    sent,       \* history: sent[tag], every payload ever sent, in order
    rcvd,       \* history: rcvd[tag], every payload recv returned, in order
    saves,      \* history: the counter in the name of each file written
    redraws,    \* history: scheduled redraws since i was last set to 0
    afterQuit,  \* history: solver steps taken since on became false
    need11,     \* history: receptions of tag 11 a full poll cycle owes
    lastReset,  \* history: the state the last applied reset left behind
    waiting,    \* rank 0 is suspended inside a comm.recv with nothing to match
    owed,       \* history: receptions of tags 25 and 14 this idle cycle owes
    stopQueued, \* history: the start last applied had a stop right behind it
    resetActs   \* history: activations of the Reset button and menu item

vars == <<chan, mainloop, pc, on, start, plot, i, r, V, airRe, dimRe, solver,
          sent, rcvd, saves, redraws, afterQuit, need11, lastReset, waiting,
          owed, stopQueued, resetActs>>

ctlVars == <<pc, on, start, plot, i, r, V, airRe, dimRe, solver,
             rcvd, saves, redraws, afterQuit, need11, lastReset, waiting,
             owed, stopQueued>>

Last(s) == s[Len(s)]

(***************************************************************************)
(* The channel: comm.isend / comm.Iprobe / comm.recv between ranks 1, 0.   *)
(* MPI matches messages of one source and tag in the order they were sent. *)
(***************************************************************************)
NSent == Len(sent[TagRe]) + Len(sent[TagRun]) + Len(sent[TagQuit])
         + Len(sent[TagReset]) + Len(sent[TagField]) + Len(sent[TagSave])

isend(obj, tag) ==
    /\ chan' = [chan EXCEPT ![tag] = Append(@, obj)]
    /\ sent' = [sent EXCEPT ![tag] = Append(@, obj)]

Iprobe(tag) == chan[tag] # <<>>

\* recvObj, were the newest pending message matched instead of the oldest
recvNewest(tag) == Last(chan[tag])

recvObj(tag) == Head(chan[tag])

\* comm.recv is the blocking receive: with nothing to match it suspends
recv(tag) ==
    IF chan[tag] # <<>>
      THEN /\ chan' = [chan EXCEPT ![tag] = Tail(@)]
           /\ rcvd' = [rcvd EXCEPT ![tag] = Append(@, Head(chan[tag]))]
           /\ waiting' = FALSE
      ELSE /\ waiting' = TRUE
           /\ UNCHANGED <<chan, rcvd>>

(***************************************************************************)
(* The solver module (Fortran, module mac): its state is the field version *)
(* n (steps advanced since the zero state), whether ghost cells and lid    *)
(* hold their boundary values, and the time step last computed, which      *)
(* depends on the fields and on dim.re.                                    *)
(***************************************************************************)
initzero(s) == [n |-> 0, ghost |-> FALSE, lid |-> FALSE, dt |-> <<>>]

ghostcondition(s) == [s EXCEPT !.ghost = TRUE]

lidcondition(s) == [s EXCEPT !.lid = TRUE]

calctstep(s, re) == [s EXCEPT !.dt = <<s.n, re>>]

advanceOneStep(s) == [s EXCEPT !.n = @ + 1, !.ghost = FALSE, !.lid = FALSE]

\* reset, were the zero state left out and the fields advanced instead
resetAdvances(s, re) ==
    advanceOneStep(calctstep(lidcondition(ghostcondition(s)), re))

\* MACSolver.reset
reset(s, re) == calctstep(lidcondition(ghostcondition(initzero(s))), re)

\* MACSolver.step
step(s, re) == advanceOneStep(calctstep(lidcondition(ghostcondition(s)), re))

\* fluid.setRe
setRe(num) ==
    /\ dimRe' = num
    /\ UNCHANGED airRe

(***************************************************************************)
(* Rank 1: the callbacks of App.  Each sends one message.                  *)
(***************************************************************************)
CanSend == mainloop /\ NSent < MaxMsgs

updateRe ==
    /\ CanSend
    /\ \E re \in SliderValues : isend(re, TagRe)
    /\ UNCHANGED <<mainloop, resetActs, ctlVars>>

startRun ==
    /\ CanSend
    /\ isend(TRUE, TagRun)
    /\ UNCHANGED <<mainloop, resetActs, ctlVars>>

stopRun ==
    /\ CanSend
    /\ isend(FALSE, TagRun)
    /\ UNCHANGED <<mainloop, resetActs, ctlVars>>

\* quitIt, were the event loop ended without the message being sent
quitItNoSend ==
    /\ CanSend
    /\ mainloop' = FALSE
    /\ UNCHANGED <<chan, sent, resetActs, ctlVars>>

quitIt ==
    /\ CanSend
    /\ isend(FALSE, TagQuit)
    /\ mainloop' = FALSE
    /\ UNCHANGED <<resetActs, ctlVars>>

resetSim ==
    /\ CanSend
    /\ isend(TRUE, TagReset)
    /\ resetActs' = resetActs + 1
    /\ UNCHANGED <<mainloop, ctlVars>>

\* what the attribute self.reset holds when App.__init__ reads it at a given
\* line: the method of the class until line 38 has run, and from then on the
\* Button that line 38 stores under the same name
ResetAttrAt(line) == IF line <= 38 THEN "method" ELSE "widget"

\* File > 'Reset simulation': the entry's command is what line 49 reads from
\* self.reset.  A widget is no callable: Tk runs its path name as a command,
\* fails with a Tcl error and nothing is sent.
menuReset ==
    /\ mainloop
    /\ NSent + (resetActs - Len(sent[TagReset])) < MaxMsgs
    /\ IF ResetAttrAt(49) = "method"
         THEN isend(TRUE, TagReset)
         ELSE UNCHANGED <<chan, sent>>
    /\ resetActs' = resetActs + 1
    /\ UNCHANGED <<mainloop, ctlVars>>

viewU ==
    /\ CanSend
    /\ isend("u", TagField)
    /\ UNCHANGED <<mainloop, resetActs, ctlVars>>

viewV ==
    /\ CanSend
    /\ isend("v", TagField)
    /\ UNCHANGED <<mainloop, resetActs, ctlVars>>

viewP ==
    /\ CanSend
    /\ isend("p", TagField)
    /\ UNCHANGED <<mainloop, resetActs, ctlVars>>

viewW ==
    /\ CanSend
    /\ isend("w", TagField)
    /\ UNCHANGED <<mainloop, resetActs, ctlVars>>

saveit ==
    /\ CanSend
    /\ isend("1", TagSave)
    /\ UNCHANGED <<mainloop, resetActs, ctlVars>>

(***************************************************************************)
(* Rank 0: the compute loop.                                               *)
(***************************************************************************)
\* LoopTest, were the running loop entered while the program is alive
LoopTestOnAlive(st, alive) ==
    IF st \/ alive THEN "step" ELSE "done"

\* the loop tests "while start" and "while on" that follow a poll cycle
LoopTest(st, alive) ==
    IF st THEN "step" ELSE IF alive THEN "idle12" ELSE "done"

\* the contour levels the scheduled redraw picks for a field
RangeOf(f) ==
    CASE f = "u" -> "lin60_1"
      [] f = "v" -> "lin60_1"
      [] f = "p" -> "n40"
      [] f = "w" -> "lin60_5"

\* the display range a set of contour levels spans
DisplayRange(levels) ==
    CASE levels = "lin100_1" -> "pm1"
      [] levels = "lin60_1" -> "pm1"
      [] levels = "n40" -> "bands40"
      [] levels = "lin60_5" -> "pm5"

IdlePoll12 ==
    /\ pc = "idle12"
    /\ IF Iprobe(TagRun)
         THEN start' = recvObj(TagRun) /\ recv(TagRun)
         ELSE UNCHANGED <<start, chan, rcvd, waiting>>
    /\ need11' = IF Iprobe(TagRe) THEN Len(rcvd[TagRe]) + 1 ELSE 0
    /\ owed' = <<IF Iprobe(TagField) THEN Len(rcvd[TagField]) + 1 ELSE 0,
                 IF Iprobe(TagReset) THEN Len(rcvd[TagReset]) + 1 ELSE 0>>
    /\ stopQueued' = /\ Iprobe(TagRun)
                     /\ recvObj(TagRun) = TRUE
                     /\ Len(chan[TagRun]) > 1
                     /\ chan[TagRun][2] = FALSE
    /\ pc' = "idle25"
    /\ UNCHANGED <<mainloop, on, plot, i, r, V, airRe, dimRe, solver, sent,
                   saves, redraws, afterQuit, lastReset,
                   resetActs>>

\* IdlePoll25, were the loop to start over once a field has been selected
IdlePoll25Continues ==
    /\ pc = "idle25"
    /\ IF Iprobe(TagField)
         THEN /\ plot' = recvObj(TagField)
              /\ recv(TagField)
              /\ pc' = "idle12"
              /\ UNCHANGED <<i, redraws>>
         ELSE /\ i' = 0
              /\ redraws' = 0
              /\ pc' = "idle13"
              /\ UNCHANGED <<plot, chan, rcvd, waiting>>
    /\ UNCHANGED <<mainloop, on, start, r, V, airRe, dimRe, solver, sent,
                   saves, afterQuit, need11, lastReset,
                   resetActs, stopQueued, owed>>

IdlePoll25 ==
    /\ pc = "idle25"
    /\ IF Iprobe(TagField)
         THEN plot' = recvObj(TagField) /\ recv(TagField)
         ELSE UNCHANGED <<plot, chan, rcvd, waiting>>
    /\ i' = 0
    /\ redraws' = 0
    /\ pc' = "idle13"
    /\ UNCHANGED <<mainloop, on, start, r, V, airRe, dimRe, solver, sent,
                   saves, afterQuit, need11, lastReset,
                   resetActs, stopQueued, owed>>

IdlePoll13 ==
    /\ pc = "idle13"
    /\ IF Iprobe(TagQuit)
         THEN on' = recvObj(TagQuit) /\ recv(TagQuit)
         ELSE UNCHANGED <<on, chan, rcvd, waiting>>
    /\ pc' = "idle14"
    /\ UNCHANGED <<mainloop, start, plot, i, r, V, airRe, dimRe, solver, sent,
                   saves, redraws, afterQuit, need11, lastReset,
                   resetActs, stopQueued, owed>>

\* the simulation state, the solver state and the frame on screen
SnapOf(sv, frame) == <<on, start, plot, i, airRe, dimRe, sv, frame, r>>

Snap == SnapOf(solver, V)

\* IdlePoll14, were a reset to stop the run as well
IdlePoll14StopsRun ==
    /\ pc = "idle14"
    /\ IF Iprobe(TagReset)
         THEN /\ recv(TagReset)
              /\ solver' = reset(solver, dimRe)
              /\ V' = "u"
              /\ start' = FALSE
              /\ lastReset' =
                   [snap |-> SnapOf(reset(solver, dimRe), "u"),
                    again |-> lastReset.snap = Snap]
         ELSE UNCHANGED <<chan, rcvd, solver, V, lastReset, waiting, start>>
    /\ pc' = "idle44"
    /\ UNCHANGED <<mainloop, on, plot, i, r, airRe, dimRe, sent,
                   saves, redraws, afterQuit, need11,
                   resetActs, stopQueued, owed>>

IdlePoll14 ==
    /\ pc = "idle14"
    /\ IF Iprobe(TagReset)
         THEN /\ recv(TagReset)
              /\ IF recvObj(TagReset)
                   THEN /\ solver' = reset(solver, dimRe)
                        /\ V' = "u"
                        /\ lastReset' =
                             [snap |-> SnapOf(reset(solver, dimRe), "u"),
                              again |-> lastReset.snap = Snap]
                   ELSE UNCHANGED <<solver, V, lastReset>>
         ELSE UNCHANGED <<chan, rcvd, solver, V, lastReset, waiting>>
    /\ pc' = "idle44"
    /\ UNCHANGED <<mainloop, on, start, plot, i, r, airRe, dimRe, sent,
                   saves, redraws, afterQuit, need11,
                   resetActs, stopQueued, owed>>

\* IdlePoll44, were the running loop to poll before it steps
IdlePoll44PollsFirst ==
    /\ pc = "idle44"
    /\ IF Iprobe(TagSave)
         THEN Len(saves) < MaxSaves /\ saves' = Append(saves, i)
         ELSE UNCHANGED saves
    /\ owed' = <<0, 0>>
    /\ pc' = IF start THEN "hot11" ELSE LoopTest(start, on)
    /\ UNCHANGED <<chan, mainloop, on, start, plot, i, r, V, airRe, dimRe,
                   solver, sent, rcvd, redraws, afterQuit, need11, lastReset,
                   waiting,
                   resetActs, stopQueued>>

IdlePoll44 ==
    /\ pc = "idle44"
    /\ IF Iprobe(TagSave)
         THEN Len(saves) < MaxSaves /\ saves' = Append(saves, i)
         ELSE UNCHANGED saves
    /\ owed' = <<0, 0>>
    /\ pc' = LoopTest(start, on)
    /\ UNCHANGED <<chan, mainloop, on, start, plot, i, r, V, airRe, dimRe,
                   solver, sent, rcvd, redraws, afterQuit, need11, lastReset,
                   waiting,
                   resetActs, stopQueued>>

\* Step, were the redraw test made before the counter is incremented
StepTestsBeforeCount(cap) ==
    /\ pc = "step"
    /\ solver.n < cap
    /\ solver' = step(solver, dimRe)
    /\ i' = i + 1
    /\ IF i % VisInterval = 0
         THEN r' = RangeOf(plot) /\ V' = plot /\ redraws' = redraws + 1
         ELSE UNCHANGED <<r, V, redraws>>
    /\ afterQuit' = IF on THEN afterQuit ELSE afterQuit + 1
    /\ pc' = "hot11"
    /\ UNCHANGED <<chan, mainloop, on, start, plot, airRe, dimRe, sent, rcvd,
                   saves, need11, lastReset, waiting,
                   resetActs, stopQueued, owed>>

Step(cap) ==
    /\ pc = "step"
    /\ solver.n < cap
    /\ solver' = step(solver, dimRe)
    /\ i' = i + 1
    /\ IF (i + 1) % VisInterval = 0
         THEN r' = RangeOf(plot) /\ V' = plot /\ redraws' = redraws + 1
         ELSE UNCHANGED <<r, V, redraws>>
    /\ afterQuit' = IF on THEN afterQuit ELSE afterQuit + 1
    /\ pc' = "hot11"
    /\ UNCHANGED <<chan, mainloop, on, start, plot, airRe, dimRe, sent, rcvd,
                   saves, need11, lastReset, waiting,
                   resetActs, stopQueued, owed>>

HotPoll11 ==
    /\ pc = "hot11"
    /\ IF Iprobe(TagRe)
         THEN setRe(recvObj(TagRe)) /\ recv(TagRe)
         ELSE UNCHANGED <<airRe, dimRe, chan, rcvd, waiting>>
    /\ pc' = "hot12"
    /\ UNCHANGED <<mainloop, on, start, plot, i, r, V, solver, sent, saves,
                   redraws, afterQuit, need11, lastReset,
                   resetActs, stopQueued, owed>>

\* HotPoll12, were the received payload dropped instead of stored in start
HotPoll12Discards ==
    /\ pc = "hot12"
    /\ IF Iprobe(TagRun)
         THEN recv(TagRun)
         ELSE UNCHANGED <<chan, rcvd, waiting>>
    /\ pc' = "hot13"
    /\ UNCHANGED <<mainloop, on, start, plot, i, r, V, airRe, dimRe, solver,
                   sent, saves, redraws, afterQuit, need11, lastReset,
                   resetActs, stopQueued, owed>>

HotPoll12 ==
    /\ pc = "hot12"
    /\ IF Iprobe(TagRun)
         THEN start' = recvObj(TagRun) /\ recv(TagRun)
         ELSE UNCHANGED <<start, chan, rcvd, waiting>>
    /\ pc' = "hot13"
    /\ UNCHANGED <<mainloop, on, plot, i, r, V, airRe, dimRe, solver, sent,
                   saves, redraws, afterQuit, need11, lastReset,
                   resetActs, stopQueued, owed>>

\* HotPoll13, were comm.recv called without the Iprobe before it
HotPoll13NoProbe ==
    /\ pc = "hot13"
    /\ recv(TagQuit)
    /\ IF Iprobe(TagQuit)
         THEN on' = recvObj(TagQuit) /\ pc' = "hot25"
         ELSE UNCHANGED <<on, pc>>
    /\ UNCHANGED <<mainloop, start, plot, i, r, V, airRe, dimRe, solver, sent,
                   saves, redraws, afterQuit, need11, lastReset,
                   resetActs, stopQueued, owed>>

HotPoll13 ==
    /\ pc = "hot13"
    /\ IF Iprobe(TagQuit)
         THEN on' = recvObj(TagQuit) /\ recv(TagQuit)
         ELSE UNCHANGED <<on, chan, rcvd, waiting>>
    /\ pc' = "hot25"
    /\ UNCHANGED <<mainloop, start, plot, i, r, V, airRe, dimRe, solver, sent,
                   saves, redraws, afterQuit, need11, lastReset,
                   resetActs, stopQueued, owed>>

\* HotPoll25, were the reset poll of the idle cycle copied into the hot path
HotPoll25PollsReset ==
    /\ pc = "hot25"
    /\ IF Iprobe(TagReset)
         THEN /\ recv(TagReset)
              /\ solver' = reset(solver, dimRe)
              /\ V' = "u"
         ELSE UNCHANGED <<chan, rcvd, waiting, solver, V>>
    /\ pc' = LoopTest(start, on)
    /\ UNCHANGED <<mainloop, on, start, plot, i, r, airRe, dimRe, sent,
                   saves, redraws, afterQuit, need11, lastReset,
                   resetActs, stopQueued, owed>>

HotPoll25 ==
    /\ pc = "hot25"
    /\ IF Iprobe(TagField)
         THEN plot' = recvObj(TagField) /\ recv(TagField)
         ELSE UNCHANGED <<plot, chan, rcvd, waiting>>
    /\ pc' = LoopTest(start, on)
    /\ UNCHANGED <<mainloop, on, start, i, r, V, airRe, dimRe, solver, sent,
                   saves, redraws, afterQuit, need11, lastReset,
                   resetActs, stopQueued, owed>>

(***************************************************************************)
(* Specifications.                                                         *)
(***************************************************************************)
Init ==
    /\ chan = [t \in Tags |-> <<>>]
    /\ mainloop = TRUE
    /\ pc = "idle12"
    /\ on = TRUE
    /\ start = FALSE
    /\ plot = "u"
    /\ i = 0
    /\ r = "lin100_1"
    /\ V = "u"
    /\ airRe = InitialRe
    /\ dimRe = InitialRe
    /\ solver = reset([n |-> 0, ghost |-> FALSE, lid |-> FALSE, dt |-> <<>>],
                      InitialRe)
    /\ sent = [t \in Tags |-> <<>>]
    /\ rcvd = [t \in Tags |-> <<>>]
    /\ saves = <<>>
    /\ redraws = 0
    /\ afterQuit = 0
    /\ need11 = 0
    /\ lastReset = [snap |-> <<>>, again |-> FALSE]
    /\ waiting = FALSE
    /\ owed = <<0, 0>>
    /\ stopQueued = FALSE
    /\ resetActs = 0

Control ==
    \/ updateRe
    \/ startRun
    \/ stopRun
    \/ quitIt
    \/ resetSim
    \/ viewU
    \/ viewV
    \/ viewP
    \/ viewW
    \/ saveit

IdleCycle ==
    \/ IdlePoll12
    \/ IdlePoll25
    \/ IdlePoll13
    \/ IdlePoll14
    \/ IdlePoll44

HotPolls ==
    \/ HotPoll11
    \/ HotPoll12
    \/ HotPoll13
    \/ HotPoll25

Next ==
    \/ Control
    \/ IdleCycle
    \/ Step(MaxIter)
    \/ HotPolls

Spec == Init /\ [][Next]_vars

\* the operator only starts and stops the run, which lasts MaxCadenceIter steps
NextCadence ==
    \/ startRun
    \/ stopRun
    \/ IdleCycle
    \/ Step(MaxCadenceIter)
    \/ HotPolls

SpecCadence == Init /\ [][NextCadence]_vars

\* the operator starts, stops, resets and selects fields; a run lasts up to
\* MaxFrameIter steps, which reaches the first scheduled redraw
NextFrames ==
    \/ startRun
    \/ stopRun
    \/ resetSim
    \/ viewU
    \/ viewV
    \/ viewP
    \/ viewW
    \/ IdleCycle
    \/ Step(MaxFrameIter)
    \/ HotPolls

SpecFrames == Init /\ [][NextFrames]_vars

\* the operator starts, stops, resets by either entry point and quits.  The
\* File > 'Reset simulation' entry changes no variable of the program, so Spec
\* loses no behaviour of the program by leaving it out.
NextMenu ==
    \/ startRun
    \/ stopRun
    \/ quitIt
    \/ resetSim
    \/ menuReset
    \/ IdleCycle
    \/ Step(MaxIter)
    \/ HotPolls

SpecMenu == Init /\ [][NextMenu]_vars

(***************************************************************************)
(* Claims.                                                                 *)
(***************************************************************************)
\* a step of rank 0 (every statement of the compute loop moves pc)
Rank0Step == pc' # pc

\* C1: once the compute loop has polled a QuitRequest (on is false) it takes
\* at most one further solver step before it leaves the loop.
C1_QuitWithinOneStep == afterQuit <= 1

\* C2: RunControl messages are consumed in send order, by the idle poll and
\* by the hot-path poll alike, and once all of them are consumed (no
\* QuitRequest sent) the running flag is the payload of the last one sent.
C2_RunControlLastWins ==
    /\ rcvd[TagRun] \o chan[TagRun] = sent[TagRun]
    /\ (sent[TagQuit] = <<>> /\ sent[TagRun] # <<>> /\ chan[TagRun] = <<>>)
          => start = Last(sent[TagRun])

\* C2 witness: start, stop, start were sent and all consumed: the first by
\* the idle poll, the second by the hot-path poll, and the loop is running.
C2_Witness ==
    /\ sent[TagRun] = <<TRUE, FALSE, TRUE>>
    /\ chan[TagRun] = <<>>
    /\ sent[TagQuit] = <<>>
    /\ start = TRUE

\* C3: immediately after the hot-path poll that consumes ReynoldsUpdate(n),
\* both the fluid object's re and the solver's dim.re equal n.
C3_ReynoldsApplied ==
    [][(pc = "hot11" /\ pc' = "hot12" /\ Iprobe(TagRe))
          => (airRe' = recvObj(TagRe) /\ dimRe' = recvObj(TagRe))]_vars

\* C4: a ReynoldsUpdate that is pending when an idle poll cycle begins has
\* been consumed when that cycle ends, without a RunControl(true).
C4_IdleCyclePollsReynolds ==
    [][(pc = "idle44" /\ Rank0Step) => Len(rcvd'[TagRe]) >= need11]_vars

\* the variable a message of the tag is applied to
Applied(tag) ==
    CASE tag = TagRe -> dimRe
      [] tag = TagRun -> start
      [] tag = TagField -> plot

\* the statements that poll the tag
PollsOf(tag) ==
    CASE tag = TagRe -> {"hot11"}
      [] tag = TagRun -> {"idle12", "hot12"}
      [] tag = TagField -> {"idle25", "hot25"}

\* C5: per-tag FIFO, one per cycle, never lost: for ReynoldsUpdate,
\* RunControl and FieldSelect, what was received followed by what is pending
\* is what was sent; a poll of a tag with messages pending removes exactly
\* the oldest one and applies it; and nothing else removes or applies one.
C5_PerTagFifo ==
    /\ [](\A t \in {TagRe, TagRun, TagField} : rcvd[t] \o chan[t] = sent[t])
    /\ [][\A t \in {TagRe, TagRun, TagField} :
            IF Rank0Step /\ pc \in PollsOf(t) /\ Iprobe(t)
              THEN /\ chan'[t] = Tail(chan[t])
                   /\ Applied(t)' = Head(chan[t])
              ELSE /\ Applied(t)' = Applied(t)
                   /\ Rank0Step => chan'[t] = chan[t]]_vars

\* C5 witness: FieldSelect(p) then FieldSelect(w) were sent, two idle polls
\* have consumed them in that order, and the selected field is w.
C5_Witness ==
    /\ sent[TagField] = <<"p", "w">>
    /\ rcvd[TagField] = <<"p", "w">>
    /\ plot = "w"
    /\ rcvd[TagRun] = <<>>
    /\ pc = "idle13"

\* C6: every hot-path iteration performs one solver step, increments the
\* iteration counter by one and redraws iff the counter is then a multiple
\* of 100, so a run of N steps from iteration 0 has made N div 100 redraws.
C6_RedrawCadence ==
    /\ [](redraws = i \div VisInterval)
    /\ [][pc = "step" /\ Rank0Step
            => /\ solver'.n = solver.n + 1
               /\ i' = i + 1
               /\ pc' = "hot11"
               /\ redraws' = redraws + (IF i' % VisInterval = 0 THEN 1 ELSE 0)
         ]_vars

\* C6 witness: an uninterrupted run of 250 steps has made 2 redraws.
C6_Witness == i = 250 /\ redraws = 2 /\ rcvd[TagRun] = <<TRUE>>

\* C7: the iteration counter changes only by the loop advancing it by one
\* per solver step; idle poll cycles do not clear it.
C7_IterationOnlyAdvances == [][i' = i \/ (pc = "step" /\ i' = i + 1)]_vars

\* C8: each SaveRequest is removed from the channel by the poll that handles
\* it and causes one render-to-file: files written plus requests pending
\* equal requests sent.
C8_SaveOncePerRequest ==
    Len(saves) + Len(chan[TagSave]) = Len(sent[TagSave])

\* C9: any two distinct save operations write files with different counters.
C9_SavedFramesDistinct ==
    \A j, k \in 1..Len(saves) : j # k => saves[j] # saves[k]

\* C10: a ResetRequest(true) applied while the state is still the one the
\* previous reset left (no step, no other change in between) leaves the
\* simulation state, the solver state and the frame as they are.
C10_ResetIdempotent ==
    [][(pc = "idle14" /\ pc' = "idle44" /\ Iprobe(TagReset)
          /\ recvObj(TagReset) /\ lastReset.snap = Snap)
          => Snap' = Snap]_vars

\* C10 witness: after a run that advanced the solver, two resets were
\* applied in successive idle cycles with nothing in between.
C10_Witness ==
    /\ pc = "idle44"
    /\ rcvd[TagRun] = <<TRUE, FALSE>>
    /\ rcvd[TagReset] = <<TRUE, TRUE>>
    /\ lastReset.again
    /\ lastReset.snap = Snap

\* C11: no channel operation of rank 0 blocks: comm.recv is only called
\* after an Iprobe of the same tag succeeded in the same poll, so rank 0 is
\* never suspended in a recv that has nothing to match.
C11_RecvNeverBlocks == ~waiting

\* C11 witness: polls with and without a message pending have run on both
\* poll cycles: start, a field, stop and quit were received and the loop
\* has ended.
C11_Witness ==
    /\ pc = "done"
    /\ rcvd[TagRun] = <<TRUE, FALSE>>
    /\ rcvd[TagQuit] = <<FALSE>>
    /\ rcvd[TagField] # <<>>
    /\ ~waiting

\* the fixed display range of a field: the same for U and V velocity, the
\* band count for pressure, the wider symmetric one for vorticity
FixedRange(f) ==
    CASE f = "u" -> "pm1"
      [] f = "v" -> "pm1"
      [] f = "p" -> "bands40"
      [] f = "w" -> "pm5"

\* C12: every frame rendered (initial draw, scheduled redraw, redraw forced
\* by reset) shows its field with that field's fixed display range, whatever
\* was drawn before.
C12_FixedRangePerField == DisplayRange(r) = FixedRange(V)

\* C13: on Quit the QuitRequest(false) is handed to the channel by the
\* handler that ends the event loop: the control process never leaves its
\* event loop without that message sent, and sends nothing afterwards.
C13_QuitEmission ==
    /\ [](~mainloop => (sent[TagQuit] # <<>> /\ Last(sent[TagQuit]) = FALSE))
    /\ [][(mainloop /\ ~mainloop')
            => /\ sent'[TagQuit] = Append(sent[TagQuit], FALSE)
               /\ chan'[TagQuit] = Append(chan[TagQuit], FALSE)]_vars
    /\ [][~mainloop => (sent' = sent /\ ~mainloop')]_vars

\* C13 witness: Quit was activated with messages still to spare: the
\* QuitRequest is in flight and the event loop has ended.
C13_Witness ==
    /\ ~mainloop
    /\ chan[TagQuit] = <<FALSE>>
    /\ sent[TagQuit] = <<FALSE>>
    /\ NSent < MaxMsgs

\* C14: when a ResetRequest(true) is applied the solver is reset once and
\* the frame redrawn in that poll shows the field FieldSelect has selected,
\* read from the freshly reset solver.
C14_ResetRedrawsSelectedField ==
    [][(pc = "idle14" /\ Rank0Step /\ Iprobe(TagReset) /\ recvObj(TagReset))
          => (solver' = reset(solver, dimRe) /\ V' = plot)]_vars

\* the statements of the inner running loop
HotPcs == {"step", "hot11", "hot12", "hot13", "hot25"}

\* the tag a hot-path statement polls (none for the step)
PolledAt(p) ==
    CASE p = "hot11" -> {TagRe}
      [] p = "hot12" -> {TagRun}
      [] p = "hot13" -> {TagQuit}
      [] p = "hot25" -> {TagField}
      [] OTHER -> {}

\* the statement that follows a hot-path statement
HotSucc(p) ==
    CASE p = "step" -> "hot11"
      [] p = "hot11" -> "hot12"
      [] p = "hot12" -> "hot13"
      [] p = "hot13" -> "hot25"
      [] p = "hot25" -> IF start' THEN "step" ELSE IF on THEN "idle12" ELSE "done"

\* C15: while Running each iteration steps the solver once and then polls
\* exactly ReynoldsUpdate, RunControl, QuitRequest, FieldSelect, once each;
\* it never consumes a ResetRequest or SaveRequest, never resets the solver
\* and writes no file, so such a request stays pending; after the stop the
\* loop goes to the idle poll cycle, whose polls of tags 14 and 44 apply it.
C15_HotPathSubset ==
    /\ [][(pc \in HotPcs /\ Rank0Step)
            => /\ \A t \in Tags :
                    chan'[t] = IF t \in PolledAt(pc) /\ Iprobe(t)
                                 THEN Tail(chan[t]) ELSE chan[t]
               /\ rcvd'[TagReset] = rcvd[TagReset]
               /\ saves' = saves
               /\ solver' = IF pc = "step" THEN step(solver, dimRe) ELSE solver
               /\ pc' = HotSucc(pc)]_vars
    /\ [][(pc = "idle14" /\ Rank0Step /\ Iprobe(TagReset))
            => /\ chan'[TagReset] = Tail(chan[TagReset])
               /\ solver' = reset(solver, dimRe)
               /\ pc' = "idle44"]_vars
    /\ [][(pc = "idle44" /\ Rank0Step /\ Iprobe(TagSave))
            => saves' = Append(saves, i)]_vars
    /\ [][(pc \in {"idle12", "idle25", "idle13"} /\ Rank0Step)
            => /\ pc' = (CASE pc = "idle12" -> "idle25"
                           [] pc = "idle25" -> "idle13"
                           [] pc = "idle13" -> "idle14")
               /\ chan'[TagReset] = chan[TagReset]
               /\ chan'[TagSave] = chan[TagSave]]_vars

\* C15 witness: a run was started and stopped, and the reset was applied by
\* an idle poll cycle after the run (the solver is back at its zero state)
\* while a SaveRequest is pending at the save poll.
C15_Witness ==
    /\ pc = "idle44"
    /\ rcvd[TagRun] = <<TRUE, FALSE>>
    /\ rcvd[TagReset] = <<TRUE>>
    /\ solver.n = 0
    /\ chan[TagSave] # <<>>

\* C16: applying a ResetRequest or a SaveRequest leaves the running flag,
\* the alive flag, the selected field, the Reynolds number and the iteration
\* counter as they are; the reset writes no file and the save leaves the
\* solver and the frame alone.
C16_ResetSaveFrame ==
    [][(Rank0Step /\ \/ (pc = "idle14" /\ Iprobe(TagReset))
                     \/ (pc = "idle44" /\ Iprobe(TagSave)))
          => /\ UNCHANGED <<start, on, plot, airRe, dimRe, i>>
             /\ pc = "idle14" => saves' = saves
             /\ pc = "idle44" => UNCHANGED <<solver, V, r>>]_vars

\* C16 witness: an idle cycle applied a reset while the running flag was
\* already true and then saved a frame; the loop enters the run with the
\* flag still true.
C16_Witness ==
    /\ pc = "step"
    /\ i = 0
    /\ start
    /\ saves = <<0>>
    /\ lastReset.snap # <<>>
    /\ lastReset.snap[2]

\* the statement that follows a poll of the idle cycle
IdleSucc(p) ==
    CASE p = "idle12" -> "idle25"
      [] p = "idle25" -> "idle13"
      [] p = "idle13" -> "idle14"
      [] p = "idle14" -> "idle44"

\* C17: a FieldSelect and a ResetRequest that are pending when an idle poll
\* cycle begins have both been received when that cycle ends, whatever else
\* is pending: the cycle runs all its polls, none is skipped for another.
C17_CrossTagIndependence ==
    /\ [][(pc = "idle44" /\ Rank0Step)
            => /\ Len(rcvd'[TagField]) >= owed[1]
               /\ Len(rcvd'[TagReset]) >= owed[2]]_vars
    /\ [][(pc \in {"idle12", "idle25", "idle13", "idle14"} /\ Rank0Step)
            => pc' = IdleSucc(pc)]_vars

\* C17 witness: the cycle began with a FieldSelect and a ResetRequest
\* pending and has received both, with a ReynoldsUpdate and a SaveRequest
\* pending besides.
C17_Witness ==
    /\ pc = "idle44"
    /\ owed[1] > 0
    /\ owed[2] > 0
    /\ Len(rcvd[TagField]) >= owed[1]
    /\ Len(rcvd[TagReset]) >= owed[2]
    /\ chan[TagRe] # <<>>
    /\ chan[TagSave] # <<>>

\* C18: every entry point of the Reset action, the Reset button and the
\* File > 'Reset simulation' menu entry, sends exactly one ResetRequest(true)
\* per activation: as many ResetRequest messages have been sent as Reset
\* entry points have been activated, all with payload true.
C18_EveryResetEntrySends ==
    /\ Len(sent[TagReset]) = resetActs
    /\ \A k \in 1..Len(sent[TagReset]) : sent[TagReset][k] = TRUE

\* a solver step: the step count of the solver goes up by one
Stepped == solver'.n = solver.n + 1

\* C19: the solver is stepped only while Running: the loop stands at the
\* step statement only with the running flag true, a step is taken only
\* there, and only when the last RunControl received is RunControl(true),
\* so that after a RunControl(false) is received no step occurs until a
\* RunControl(true) is.
C19_SteppedOnlyWhileRunning ==
    /\ [](pc = "step" => start)
    /\ [][Stepped => /\ pc = "step"
                      /\ start
                      /\ rcvd[TagRun] # <<>>
                      /\ Last(rcvd[TagRun]) = TRUE]_vars

\* C19 witness: a run was stopped by the hot-path poll after one step and
\* started again, and the solver has taken its second step.
C19_Witness ==
    /\ rcvd[TagRun] = <<TRUE, FALSE, TRUE>>
    /\ solver.n = 2
    /\ pc = "hot11"

\* C20: when the idle poll receives RunControl(true) with RunControl(false)
\* pending behind it, the loop goes from the end of the idle cycle to the
\* step statement, takes one solver step only, and is back at the idle poll
\* (or at the end of the loop) stopped, with the iteration counter at one.
C20_StepBeforePoll ==
    /\ []((stopQueued /\ pc \in {"idle12", "done"}) => (i = 1 /\ ~start))
    /\ [][(stopQueued /\ pc = "idle44" /\ Rank0Step) => pc' = "step"]_vars
    /\ [][(stopQueued /\ Stepped) => (i = 0 /\ i' = 1)]_vars

\* C20 witness: RunControl(true) and RunControl(false) were both pending at
\* the idle poll, and the loop is back at the idle poll after one step.
C20_Witness ==
    /\ stopQueued
    /\ pc = "idle12"
    /\ rcvd[TagRun] = <<TRUE, FALSE>>
    /\ solver.n = 1
    /\ i = 1

====
